---- MODULE Spec2Model ----
\* A state-machine model of src/src/debounce.ts: one debounced wrapper, the host's
\* timer facility, the promise the wrapper hands out and the environment that
\* calls it.  Durations are in milliseconds and time advances in steps of TickMs;
\* a timer whose remaining time is zero fires before time advances, in any order
\* among the timers that are due.  The host is a browser (window exists) and
\* the wrapper is constructed with cancelOn: "Escape".
EXTENDS Integers, Sequences, FiniteSets, Bags

Max(a, b) == IF a >= b THEN a ELSE b
Min(a, b) == IF a <= b THEN a ELSE b

\* ------------------------------------------------------------------ bounds
\* Calls of debounced() and flush() in a run.
MaxOps == 3
\* Asynchronous activities outstanding at a time: execution attempts scheduled
\* or suspended, and operations in flight.
MaxConcurrent == 2

\* ------------------------------------------------------- program constants
RetryFloor == 10

Null == 0
\* lastArgs/lastThis hold the arguments and context of a call; the model names
\* them by the call's ordinal (every call passes a value of its own), 0 is null.
NullArgs == 0
Keys == {"Escape", "Enter"}
TickMs == RetryFloor
\* The delays and max-waits wrappers are constructed with: a delay of two
\* time steps, so that calls can arrive before, at and after the max-wait.
Delays == {2 * TickMs}
\* 0 stands for maxWait: null (a maxWait <= 0 disables the bound as well).
MaxWaits == {0, TickMs}
\* The elapsed-time counters saturate above every duration they are compared to.
ElapsedCap == 3 * TickMs
isBrowser == TRUE

VARIABLES
  \* construction arguments (fixed after Init)
  isDeclaredAsyncFunction, condition, maxWait, delay, cancelKey,
  \* the arguments debounce was called with, and how the call ended
  fnArg, delayArg, built,
  \* the closure's state
  delayTimer, maxWaitTimer, lastArgs, hasPending, pendingPromise, removeKeyListener,
  \* the host: live timers, promises created, suspended attempts, operations in flight,
  \* keydown listeners registered on window
  timers, nPromises, awaiting, inflight, listeners,
  \* history
  bursts, execsInBurst, lastExec, returnedTo, lastSettled, lastOp, nCalls, nFlush,
  sinceCall, sinceBurst, cancelled, condFailed

config == <<isDeclaredAsyncFunction, condition, maxWait, delay, cancelKey,
            fnArg, delayArg, built>>
closure == <<delayTimer, maxWaitTimer, lastArgs, hasPending, pendingPromise, removeKeyListener>>
host == <<timers, nPromises, awaiting, inflight, listeners>>
history == <<bursts, execsInBurst, lastExec, returnedTo, lastSettled, lastOp, nCalls, nFlush,
             sinceCall, sinceBurst, cancelled, condFailed>>
vars == <<config, closure, host, history>>

Undefined == [kind |-> "undefined", v |-> 0]
NoExec == [burst |-> 0, args |-> NullArgs]
\* lastOp describes the last step when the caller took it: the method called,
\* pending() before the call and what the call returned.
EnvStep == [name |-> "env", was |-> FALSE, ret |-> Undefined]
\* lastExec and lastSettled describe what the last step did: the execution of fn
\* in it and the promise settled in it, if any.
NoExecution == [burst |-> 0, pending |-> FALSE, args |-> NullArgs, via |-> "none",
                cond |-> "none", at |-> 0, res |-> "none"]
NoSettlement == [id |-> 0, st |-> "none", err |-> "none", exec |-> NoExec, returnedTo |-> {}]

\* The mutable state as one record, so that the source's functions compose.
\* bursts counts the bursts started, execsInBurst the executions of fn since the
\* last burst started, returnedTo is the set of bursts in which the current
\* pendingPromise was handed to a caller, ret is the handler's result.
State == [delayTimer |-> delayTimer, maxWaitTimer |-> maxWaitTimer,
          lastArgs |-> lastArgs, hasPending |-> hasPending,
          pendingPromise |-> pendingPromise, removeKeyListener |-> removeKeyListener,
          timers |-> timers, nPromises |-> nPromises, awaiting |-> awaiting,
          inflight |-> inflight, listeners |-> listeners, bursts |-> bursts, execsInBurst |-> execsInBurst,
          lastExec |-> NoExecution, returnedTo |-> returnedTo, lastSettled |-> NoSettlement,
          ret |-> Undefined]

Commit(s) ==
  /\ delayTimer' = s.delayTimer
  /\ maxWaitTimer' = s.maxWaitTimer
  /\ lastArgs' = s.lastArgs
  /\ hasPending' = s.hasPending
  /\ pendingPromise' = s.pendingPromise
  /\ removeKeyListener' = s.removeKeyListener
  /\ timers' = s.timers
  /\ nPromises' = s.nPromises
  /\ awaiting' = s.awaiting
  /\ inflight' = s.inflight
  /\ listeners' = s.listeners
  /\ bursts' = s.bursts
  /\ execsInBurst' = s.execsInBurst
  /\ lastExec' = s.lastExec
  /\ returnedTo' = s.returnedTo
  /\ lastSettled' = s.lastSettled

\* ------------------------------------------------------------ host: timers
FreeId(s, i) == i # s.delayTimer /\ i # s.maxWaitTimer /\ \A t \in s.timers : t.id # i

NewTimerId(s) ==
  CHOOSE i \in 1..(Cardinality(s.timers) + 3) :
    FreeId(s, i) /\ \A j \in 1..(i - 1) : ~FreeId(s, j)

\* setTimeout(cb, ms): the new state; the handle is NewTimerId(s).
setTimeout(s, cb, ms) ==
  [s EXCEPT !.timers = @ \cup {[id |-> NewTimerId(s), cb |-> cb, left |-> ms]}]

clearTimeout(s, id) == [s EXCEPT !.timers = {t \in @ : t.id # id}]

\* ------------------------------------------------------ the closure's code
cleanupKeyListener(s) ==
  IF s.removeKeyListener
  THEN [s EXCEPT !.removeKeyListener = FALSE, !.listeners = @ - 1]
  ELSE s

\* attachKeyListener that registers a handler although one is registered.
attachKeyListener_again(s) ==
  IF ~isBrowser \/ cancelKey = "null"
  THEN s
  ELSE [s EXCEPT !.removeKeyListener = TRUE, !.listeners = @ + 1]

attachKeyListener(s) ==
  IF ~isBrowser \/ cancelKey = "null" \/ s.removeKeyListener
  THEN s
  ELSE [s EXCEPT !.removeKeyListener = TRUE, !.listeners = @ + 1]

clearTimers(s) ==
  LET s1 == IF s.delayTimer # Null
            THEN [clearTimeout(s, s.delayTimer) EXCEPT !.delayTimer = Null]
            ELSE s
  IN IF s1.maxWaitTimer # Null
     THEN [clearTimeout(s1, s1.maxWaitTimer) EXCEPT !.maxWaitTimer = Null]
     ELSE s1

\* The new state; the promise returned is its pendingPromise.  Promise objects
\* are named by the order of their creation.
ensurePendingPromise(s) ==
  IF s.pendingPromise = Null
  THEN [s EXCEPT !.nPromises = @ + 1, !.pendingPromise = s.nPromises + 1,
                 !.returnedTo = {}]
  ELSE s

\* const res = resolvePending (or rej = rejectPending); pendingPromise,
\* resolvePending and rejectPending are nulled; if (res) res(val).  st is
\* "resolved" or "rejected", err the error, exec the execution whose outcome it is.
SettlePending(s, st, err, exec) ==
  LET p == s.pendingPromise
      s1 == [s EXCEPT !.pendingPromise = Null, !.returnedTo = {}]
  IN IF p # Null
     THEN [s1 EXCEPT !.lastSettled = [id |-> p, st |-> st, err |-> err, exec |-> exec,
                                      returnedTo |-> s.returnedTo]]
     ELSE s1

\* One invocation of the wrapped operation, fn.apply(currentThis, currentArgs).
\* was: hasPending when the handler started; seen: what the attempt's condition
\* check yielded ("none": no condition); at: the time since the last call;
\* r: what fn did ("return", "throw", or "promise" for a declared-async fn).
Invoke(s, was, args, via, seen, r) ==
  [s EXCEPT !.execsInBurst = @ + 1,
            !.lastExec = [burst |-> s.bursts, pending |-> was, args |-> args,
                          via |-> via, cond |-> seen, at |-> sinceCall, res |-> r]]

\* tryRun that leaves hasPending set when it executes.
tryRunExecute_staysPending(s, seen, r) ==
  LET currentArgs == s.lastArgs
      s1 == cleanupKeyListener(clearTimers(s))
      s2 == [s1 EXCEPT !.lastArgs = NullArgs]
      s3 == Invoke(s2, s.hasPending, currentArgs, "tryRun", seen, r)
      exec == [burst |-> s.bursts, args |-> currentArgs]
  IN IF isDeclaredAsyncFunction
     THEN [s3 EXCEPT !.inflight = @ (+) SetToBag({exec})]
     ELSE SettlePending(s3, IF r = "throw" THEN "rejected" ELSE "resolved",
                        IF r = "throw" THEN "operation" ELSE "none", exec)

\* tryRun from `const currentArgs = lastArgs` on.  r is what a synchronous fn
\* does ("return" or "throw"); a declared-async fn returns a promise.
tryRunExecute(s, seen, r) ==
  LET currentArgs == s.lastArgs
      s1 == cleanupKeyListener(clearTimers(s))
      s2 == [s1 EXCEPT !.hasPending = FALSE, !.lastArgs = NullArgs]
      s3 == Invoke(s2, s.hasPending, currentArgs, "tryRun", seen, r)
      exec == [burst |-> s.bursts, args |-> currentArgs]
  IN IF isDeclaredAsyncFunction
     THEN [s3 EXCEPT !.inflight = @ (+) SetToBag({exec})]
     ELSE IF r = "throw"
          THEN SettlePending(s3, "rejected", "operation", exec)
          ELSE SettlePending(s3, "resolved", "none", exec)

\* tryRun without its `if (!ok)` branch.
tryRunAfterCondition_noGate(s, seen, r) == tryRunExecute(s, seen, r)

\* tryRun that schedules no retry when the condition yields false.
tryRunAfterCondition_noRetry(s, seen, r) ==
  IF seen = "false" THEN s ELSE tryRunExecute(s, seen, r)

\* tryRun that retries after the 10 ms floor whatever the delay is.
tryRunAfterCondition_fixedRetry(s, seen, r) ==
  IF seen = "false"
  THEN [setTimeout(s, "tryRun", RetryFloor) EXCEPT !.delayTimer = NewTimerId(s)]
  ELSE tryRunExecute(s, seen, r)

\* tryRun that gives the burst up when the condition yields false.
tryRunAfterCondition_retryClears(s, seen, r) ==
  IF seen = "false"
  THEN LET s1 == clearTimers(s)
       IN [setTimeout(s1, "tryRun", Max(RetryFloor, delay)) EXCEPT !.delayTimer = NewTimerId(s1)]
  ELSE tryRunExecute(s, seen, r)

\* tryRun after `ok` is known: retry when it is false, execute otherwise.
tryRunAfterCondition(s, seen, r) ==
  IF seen = "false"
  THEN [setTimeout(s, "tryRun", Max(RetryFloor, delay)) EXCEPT !.delayTimer = NewTimerId(s)]
  ELSE tryRunExecute(s, seen, r)

\* tryRun's outer catch.
tryRunCatch(s) == SettlePending(s, "rejected", "condition", NoExec)

\* tryRun up to its first suspension.  c is what a synchronous condition yields
\* ("true", "false" or "throw"); an asynchronous one suspends the attempt.
tryRun(s, c, r) ==
  IF condition = "none" THEN tryRunExecute(s, "none", r)
  ELSE IF condition = "async" THEN [s EXCEPT !.awaiting = @ + 1]
  ELSE IF c = "throw" THEN tryRunCatch(s)
  ELSE tryRunAfterCondition(s, c, r)

\* tryRun resumed after `await maybeOk`.
tryRunResume(s, c, r) ==
  LET s1 == [s EXCEPT !.awaiting = @ - 1]
  IN IF c = "throw" THEN tryRunCatch(s1) ELSE tryRunAfterCondition(s1, c, r)

\* The callbacks tryRun attaches to the promise a declared-async fn returned.
opThen(s, exec) ==
  SettlePending([s EXCEPT !.inflight = @ (-) SetToBag({exec})], "resolved", "none", exec)

opCatch(s, exec) ==
  SettlePending([s EXCEPT !.inflight = @ (-) SetToBag({exec})], "rejected", "operation", exec)

\* The max-wait timer's callback.
maxWaitCallback(s) ==
  IF s.hasPending
  THEN LET s1 == IF s.delayTimer # Null
                 THEN [clearTimeout(s, s.delayTimer) EXCEPT !.delayTimer = Null]
                 ELSE s
       IN [setTimeout(s1, "tryRun", 0) EXCEPT !.delayTimer = NewTimerId(s1)]
  ELSE s

\* schedule without `clearTimeout(delayTimer)` before re-arming.
schedule_keepsOldTimer(s) ==
  LET s0 == [s EXCEPT !.hasPending = TRUE, !.bursts = @ + 1, !.execsInBurst = 0]
      s1 == IF ~s.hasPending
            THEN IF maxWait > 0
                 THEN [setTimeout(s0, "maxWait", maxWait) EXCEPT !.maxWaitTimer = NewTimerId(s0)]
                 ELSE s0
            ELSE s
      s3 == [setTimeout(s1, "tryRun", delay) EXCEPT !.delayTimer = NewTimerId(s1)]
  IN attachKeyListener(s3)

\* schedule that arms the max-wait timer in every call.
schedule_rearmsMaxWait(s) ==
  LET s0 == IF s.hasPending
            THEN s
            ELSE [s EXCEPT !.hasPending = TRUE, !.bursts = @ + 1, !.execsInBurst = 0]
      s1 == IF maxWait > 0
            THEN [setTimeout(s0, "maxWait", maxWait) EXCEPT !.maxWaitTimer = NewTimerId(s0)]
            ELSE s0
      s2 == IF s1.delayTimer # Null
            THEN [clearTimeout(s1, s1.delayTimer) EXCEPT !.delayTimer = Null]
            ELSE s1
      s3 == [setTimeout(s2, "tryRun", delay) EXCEPT !.delayTimer = NewTimerId(s2)]
  IN attachKeyListener(s3)

schedule(s) ==
  LET s0 == [s EXCEPT !.hasPending = TRUE, !.bursts = @ + 1, !.execsInBurst = 0]
      s1 == IF ~s.hasPending
            THEN IF maxWait > 0
                 THEN [setTimeout(s0, "maxWait", maxWait) EXCEPT !.maxWaitTimer = NewTimerId(s0)]
                 ELSE s0
            ELSE s
      s2 == IF s1.delayTimer # Null
            THEN [clearTimeout(s1, s1.delayTimer) EXCEPT !.delayTimer = Null]
            ELSE s1
      s3 == [setTimeout(s2, "tryRun", delay) EXCEPT !.delayTimer = NewTimerId(s2)]
  IN attachKeyListener(s3)

\* cancel that drops the promise without rejecting it.
cancel_noReject(s) ==
  IF ~s.hasPending
  THEN s
  ELSE LET s1 == cleanupKeyListener(clearTimers(s))
       IN [s1 EXCEPT !.hasPending = FALSE, !.lastArgs = NullArgs,
                     !.pendingPromise = Null, !.returnedTo = {}]

\* cancel without its `if (!hasPending) return`.
cancel_noGuard(s) ==
  LET s1 == cleanupKeyListener(clearTimers(s))
      s2 == [s1 EXCEPT !.hasPending = FALSE, !.lastArgs = NullArgs]
  IN SettlePending(s2, "rejected", "DebounceCancelledError", NoExec)

cancel(s) ==
  IF ~s.hasPending
  THEN s
  ELSE LET s1 == cleanupKeyListener(clearTimers(s))
           s2 == [s1 EXCEPT !.hasPending = FALSE, !.lastArgs = NullArgs]
       IN SettlePending(s2, "rejected", "DebounceCancelledError", NoExec)

\* c is what condition() yields when flush evaluates it (a synchronous
\* condition, fn not declared async); an asynchronous condition yields a promise.
canRunSyncNow(c) ==
  ~isDeclaredAsyncFunction /\ (condition = "none" \/ (condition = "sync" /\ c = "true"))

\* flush without its `if (!hasPending || !lastArgs) return undefined`.
flush_noGuard(s, c, r) ==
  IF ~isDeclaredAsyncFunction /\ condition = "sync" /\ c = "throw"
  THEN [s EXCEPT !.ret = [kind |-> "throw", v |-> 0]]
  ELSE IF canRunSyncNow(c)
  THEN LET s1 == cleanupKeyListener(clearTimers(s))
           s2 == [s1 EXCEPT !.hasPending = FALSE, !.lastArgs = NullArgs]
           s4 == Invoke(s2, s.hasPending, s.lastArgs, "flush",
                        IF condition = "none" THEN "none" ELSE c, r)
       IN [s4 EXCEPT !.ret = [kind |-> IF r = "throw" THEN "throw" ELSE "value",
                              v |-> s.lastArgs]]
  ELSE LET s1 == [clearTimers(s) EXCEPT !.ret = Undefined]
           s3 == IF isDeclaredAsyncFunction
                 THEN [ensurePendingPromise(s1) EXCEPT !.returnedTo = @ \cup {s.bursts}]
                 ELSE s1
       IN [setTimeout(s3, "tryRun", 0)
             EXCEPT !.ret = IF isDeclaredAsyncFunction
                            THEN [kind |-> "promise", v |-> s3.pendingPromise]
                            ELSE Undefined]

\* flush whose synchronous path does not clear the timers.
flush_keepsTimers(s, c, r) ==
  IF ~s.hasPending \/ s.lastArgs = NullArgs
  THEN [s EXCEPT !.ret = Undefined]
  ELSE IF canRunSyncNow(c)
  THEN LET s1 == cleanupKeyListener(s)
           s2 == [s1 EXCEPT !.hasPending = FALSE, !.lastArgs = NullArgs]
           s4 == Invoke(s2, s.hasPending, s.lastArgs, "flush",
                        IF condition = "none" THEN "none" ELSE c, r)
       IN [s4 EXCEPT !.ret = [kind |-> IF r = "throw" THEN "throw" ELSE "value",
                              v |-> s.lastArgs]]
  ELSE [setTimeout(s, "tryRun", 0) EXCEPT !.ret = Undefined]

\* r is what a synchronous fn does.  A condition that throws inside flush
\* leaves through flush before anything is changed.
flush(s, c, r) ==
  IF ~s.hasPending \/ s.lastArgs = NullArgs
  THEN [s EXCEPT !.ret = Undefined]
  ELSE IF ~isDeclaredAsyncFunction /\ condition = "sync" /\ c = "throw"
  THEN [s EXCEPT !.ret = [kind |-> "throw", v |-> 0]]
  ELSE IF canRunSyncNow(c)
  THEN LET s1 == cleanupKeyListener(clearTimers(s))
           s2 == [s1 EXCEPT !.hasPending = FALSE]
           currentArgs == s2.lastArgs
           s3 == [s2 EXCEPT !.lastArgs = NullArgs]
           s4 == Invoke(s3, s.hasPending, currentArgs, "flush",
                        IF condition = "none" THEN "none" ELSE c, r)
       IN [s4 EXCEPT !.ret = [kind |-> IF r = "throw" THEN "throw" ELSE "value",
                              v |-> currentArgs]]
  ELSE LET s1 == IF s.delayTimer # Null
                 THEN [clearTimeout(s, s.delayTimer) EXCEPT !.delayTimer = Null]
                 ELSE s
           s2 == IF s1.maxWaitTimer # Null
                 THEN [clearTimeout(s1, s1.maxWaitTimer) EXCEPT !.maxWaitTimer = Null]
                 ELSE s1
           s3 == IF isDeclaredAsyncFunction
                 THEN [ensurePendingPromise(s2) EXCEPT !.returnedTo = @ \cup {s.bursts}]
                 ELSE s2
           maybePromise == IF isDeclaredAsyncFunction
                           THEN [kind |-> "promise", v |-> s3.pendingPromise]
                           ELSE Undefined
       IN [setTimeout(s3, "tryRun", 0) EXCEPT !.ret = maybePromise]

debounced(s, a) ==
  LET s1 == schedule([s EXCEPT !.lastArgs = a])
  IN IF isDeclaredAsyncFunction
     THEN LET s2 == ensurePendingPromise(s1)
          IN [s2 EXCEPT !.returnedTo = @ \cup {s2.bursts},
                        !.ret = [kind |-> "promise", v |-> s2.pendingPromise]]
     ELSE [s1 EXCEPT !.ret = Undefined]

\* A handler that does not compare ev.key with cancelKey.
handler_anyKey(s, key) == cancel(s)

\* The keydown handler attachKeyListener registers.
handler(s, key) == IF key = cancelKey THEN cancel(s) ELSE s

\* ------------------------------------------------------------- the machine
SyncConditionOutcomes == IF condition = "sync" THEN {"true", "false", "throw"} ELSE {"none"}
FnOutcomes == IF isDeclaredAsyncFunction THEN {"promise"} ELSE {"return", "throw"}

\* The values a caller may pass as fn, named by what `typeof` and
\* `constructor.name` say of them, and as delay: a number (finite, NaN or
\* infinite) or something that is not a number.
FnArgs == {"Function", "AsyncFunction", "undefined", "object", "string"}
DelayArgs ==
  {[type |-> "number", is |-> "finite", v |-> n] : n \in {-TickMs, -1, 0, TickMs, 2 * TickMs}}
  \cup {[type |-> "number", is |-> k, v |-> 0] : k \in {"NaN", "Infinity", "-Infinity"}}
  \cup {[type |-> "string", is |-> "finite", v |-> 2 * TickMs],
        [type |-> "undefined", is |-> "NaN", v |-> 0]}

\* debounce that accepts a negative delay.
debounce_allowsNegative(f, d) ==
  IF f \notin {"Function", "AsyncFunction"}
  THEN "TypeError: Expected a function to debounce"
  ELSE IF d.type # "number" \/ d.is # "finite"
  THEN "TypeError: Expected 'delay' to be a non-negative finite number"
  ELSE "ok"

\* The argument checks of debounce(fn, delay, options): the error thrown, or
\* "ok" when construction goes on.
debounce(f, d) ==
  IF f \notin {"Function", "AsyncFunction"}
  THEN "TypeError: Expected a function to debounce"
  ELSE IF d.type # "number" \/ d.is # "finite" \/ d.v < 0
  THEN "TypeError: Expected 'delay' to be a non-negative finite number"
  ELSE "ok"

\* The closure's variables as their declarations initialise them, on a host
\* with no timer armed, and nothing observed yet.
Fresh ==
  /\ delayTimer = Null
  /\ maxWaitTimer = Null
  /\ lastArgs = NullArgs
  /\ hasPending = FALSE
  /\ pendingPromise = Null
  /\ removeKeyListener = FALSE
  /\ timers = {}
  /\ nPromises = 0
  /\ awaiting = 0
  /\ inflight = EmptyBag
  /\ listeners = 0
  /\ bursts = 0
  /\ execsInBurst = 0
  /\ lastExec = NoExecution
  /\ returnedTo = {}
  /\ lastSettled = NoSettlement
  /\ lastOp = EnvStep
  /\ nCalls = 0
  /\ nFlush = 0
  /\ sinceCall = 0
  /\ sinceBurst = 0
  /\ cancelled = FALSE
  /\ condFailed = FALSE

\* The state after a successful construction.
Init ==
  /\ isDeclaredAsyncFunction \in BOOLEAN
  /\ condition \in {"none", "sync", "async"}
  /\ maxWait \in MaxWaits
  /\ delay \in Delays
  /\ cancelKey \in {"Escape"}
  /\ fnArg = IF isDeclaredAsyncFunction THEN "AsyncFunction" ELSE "Function"
  /\ delayArg = [type |-> "number", is |-> "finite", v |-> delay]
  /\ built = debounce(fnArg, delayArg)
  /\ Fresh

\* The time since the last call and since the first call of the burst, kept
\* while a burst is pending on a wrapper without a condition (the deadlines it
\* is compared to are those of such wrappers): d more milliseconds have passed.
Elapsed(d) ==
  /\ sinceCall' = IF hasPending' /\ condition = "none"
                  THEN Min(sinceCall + d, ElapsedCap) ELSE 0
  /\ sinceBurst' = IF hasPending' /\ condition = "none"
                   THEN Min(sinceBurst + d, ElapsedCap) ELSE 0

\* The execution attempts that exist: scheduled (a live timer whose callback
\* is tryRun) or suspended in the condition's await.
Attempts == Cardinality({t \in timers : t.cb = "tryRun"}) + awaiting

Concurrent == Attempts + BagCardinality(inflight)

\* The step keeps the outstanding attempts and operations within the bound.
Bounded == Concurrent' <= MaxConcurrent

\* debounced(...args)
Call ==
  /\ nCalls + nFlush < MaxOps
  /\ LET s == debounced(State, nCalls + 1)
     IN /\ Commit(s)
        /\ lastOp' = [name |-> "call", was |-> hasPending, ret |-> s.ret]
  /\ nCalls' = nCalls + 1
  /\ sinceCall' = 0
  /\ sinceBurst' = IF hasPending THEN sinceBurst ELSE 0
  /\ cancelled' = FALSE
  /\ condFailed' = FALSE
  /\ UNCHANGED <<config, nFlush>>
  /\ Bounded

\* debounced.cancel()
Cancel ==
  /\ Commit(cancel(State))
  /\ lastOp' = [name |-> "cancel", was |-> hasPending, ret |-> Undefined]
  /\ cancelled' = (cancelled \/ hasPending)
  /\ Elapsed(0)
  /\ UNCHANGED <<config, nCalls, nFlush, condFailed>>

\* debounced.flush()
Flush(c, r) ==
  /\ nCalls + nFlush < MaxOps
  /\ LET s == flush(State, c, r)
     IN /\ Commit(s)
        /\ lastOp' = [name |-> "flush", was |-> hasPending, ret |-> s.ret]
  /\ nFlush' = nFlush + 1
  /\ condFailed' = (condFailed /\ ~hasPending)
  /\ Elapsed(0)
  /\ UNCHANGED <<config, nCalls, cancelled>>
  /\ Bounded

\* A keydown event reaches the window; it runs the handler if one is attached.
KeyDown(key) ==
  /\ Commit(IF listeners > 0 THEN handler(State, key) ELSE State)
  /\ lastOp' = EnvStep
  /\ cancelled' = (cancelled \/ (listeners > 0 /\ key = cancelKey /\ hasPending))
  /\ Elapsed(0)
  /\ UNCHANGED <<config, nCalls, nFlush, condFailed>>

\* A due timer fires and runs its callback.
FireTimer(t, c, r) ==
  /\ t \in timers
  /\ t.left = 0
  /\ LET s == [State EXCEPT !.timers = @ \ {t}]
     IN Commit(IF t.cb = "maxWait" THEN maxWaitCallback(s) ELSE tryRun(s, c, r))
  /\ lastOp' = EnvStep
  /\ condFailed' = (condFailed \/ (t.cb = "tryRun" /\ condition = "sync" /\ c = "throw"))
  /\ Elapsed(0)
  /\ UNCHANGED <<config, nCalls, nFlush, cancelled>>
  /\ Bounded

\* The promise an asynchronous condition returned settles; the attempt resumes.
ResumeTryRun(c, r) ==
  /\ awaiting > 0
  /\ Commit(tryRunResume(State, c, r))
  /\ lastOp' = EnvStep
  /\ condFailed' = (condFailed \/ c = "throw")
  /\ Elapsed(0)
  /\ UNCHANGED <<config, nCalls, nFlush, cancelled>>

\* The promise a declared-async fn returned settles.
SettleOp(exec, ok) ==
  /\ BagIn(exec, inflight)
  /\ Commit(IF ok THEN opThen(State, exec) ELSE opCatch(State, exec))
  /\ lastOp' = EnvStep
  /\ Elapsed(0)
  /\ UNCHANGED <<config, nCalls, nFlush, cancelled, condFailed>>

\* TickMs milliseconds pass; no timer is overdue.
Tick ==
  /\ \A t \in timers : t.left > 0
  /\ timers' = {[t EXCEPT !.left = @ - TickMs] : t \in timers}
  /\ lastExec' = NoExecution
  /\ lastSettled' = NoSettlement
  /\ UNCHANGED <<config, closure, nPromises, awaiting, inflight, listeners, bursts, execsInBurst,
                 returnedTo, nCalls, nFlush, cancelled, condFailed>>
  /\ Elapsed(TickMs)
  /\ lastOp' = EnvStep

Next ==
  \/ Call
  \/ Cancel
  \/ \E c \in SyncConditionOutcomes, r \in FnOutcomes : Flush(c, r)
  \/ \E key \in Keys : KeyDown(key)
  \/ \E t \in timers, c \in SyncConditionOutcomes, r \in FnOutcomes : FireTimer(t, c, r)
  \/ \E c \in {"true", "false", "throw"}, r \in FnOutcomes : ResumeTryRun(c, r)
  \/ \E exec \in BagToSet(inflight), ok \in BOOLEAN : SettleOp(exec, ok)
  \/ Tick

Spec == Init /\ [][Next]_vars

\* The call debounce(fn, delay, options) itself, for every kind of argument.
InitConstruct ==
  /\ fnArg \in FnArgs
  /\ delayArg \in DelayArgs
  /\ condition \in {"none", "sync", "async"}
  /\ maxWait \in MaxWaits
  /\ cancelKey \in {"Escape"}
  /\ built = "no"
  /\ isDeclaredAsyncFunction = FALSE
  /\ delay = 0
  /\ Fresh

Construct ==
  /\ built = "no"
  /\ built' = debounce(fnArg, delayArg)
  /\ IF built' = "ok"
     THEN /\ isDeclaredAsyncFunction' = (fnArg = "AsyncFunction")
          /\ delay' = delayArg.v
     ELSE UNCHANGED <<isDeclaredAsyncFunction, delay>>
  /\ UNCHANGED <<condition, maxWait, cancelKey, fnArg, delayArg, closure, host, history>>

SpecConstruct == InitConstruct /\ [][Construct]_vars

\* Wrappers with a condition and no max-wait, for delays below, at and above
\* the floor of the retry interval.
RetryDelays == {0, TickMs, 2 * TickMs}

InitRetry ==
  /\ isDeclaredAsyncFunction \in BOOLEAN
  /\ condition \in {"sync", "async"}
  /\ maxWait = 0
  /\ delay \in RetryDelays
  /\ cancelKey \in {"Escape"}
  /\ fnArg = IF isDeclaredAsyncFunction THEN "AsyncFunction" ELSE "Function"
  /\ delayArg = [type |-> "number", is |-> "finite", v |-> delay]
  /\ built = debounce(fnArg, delayArg)
  /\ Fresh

SpecRetry == InitRetry /\ [][Next]_vars

\* Runs of a wrapper with a condition in which nobody cancels and the
\* condition never raises.  Timers fire when they are due, time passes, and
\* the promise an asynchronous condition returned settles.
InitLive ==
  /\ isDeclaredAsyncFunction \in BOOLEAN
  /\ condition \in {"sync", "async"}
  /\ maxWait \in MaxWaits
  /\ delay \in Delays
  /\ cancelKey \in {"Escape"}
  /\ fnArg = IF isDeclaredAsyncFunction THEN "AsyncFunction" ELSE "Function"
  /\ delayArg = [type |-> "number", is |-> "finite", v |-> delay]
  /\ built = debounce(fnArg, delayArg)
  /\ Fresh

LiveConditionOutcomes == SyncConditionOutcomes \ {"throw"}

LiveFlush == \E c \in LiveConditionOutcomes, r \in FnOutcomes : Flush(c, r)

LiveFire == \E t \in timers, c \in LiveConditionOutcomes, r \in FnOutcomes : FireTimer(t, c, r)

LiveResume == \E c \in {"true", "false"}, r \in FnOutcomes : ResumeTryRun(c, r)

LiveSettle == \E exec \in BagToSet(inflight), ok \in BOOLEAN : SettleOp(exec, ok)

NextLive ==
  \/ Call
  \/ LiveFlush
  \/ LiveFire
  \/ LiveResume
  \/ LiveSettle
  \/ Tick

SpecLive ==
  /\ InitLive
  /\ [][NextLive]_vars
  /\ WF_vars(LiveFire)
  /\ WF_vars(LiveResume)
  /\ WF_vars(LiveSettle)
  /\ WF_vars(Tick)

\* ------------------------------------------------------------------ claims
Executed == lastExec.via # "none"
Settled == lastSettled.st # "none"

\* C1 (burst collapse): on a wrapper without condition and maxWait, in a run
\* without flush, a burst is executed exactly once, when the delay of its last
\* call has elapsed and not later, with the arguments of its last call.
C1_BurstCollapse ==
  (condition = "none" /\ maxWait = 0 /\ nFlush = 0) =>
    /\ execsInBurst <= 1
    /\ Executed => /\ lastExec.pending
                   /\ lastExec.burst = bursts
                   /\ lastExec.args = nCalls
                   /\ lastExec.at = delay
                   /\ ~hasPending
    /\ hasPending => (execsInBurst = 0 /\ sinceCall <= delay)
    /\ (~hasPending /\ bursts > 0 /\ ~cancelled) => execsInBurst = 1

\* A burst of two calls, spaced less than the delay apart, has been executed.
C1_Witness ==
  /\ condition = "none" /\ maxWait = 0 /\ nFlush = 0 /\ delay > 0
  /\ Executed /\ bursts = 1 /\ nCalls = 2 /\ lastExec.args = 2

\* C2 (cancel prevents execution): after a cancel() that found pending() true,
\* fn is not executed until a later call.
C2_CancelPreventsExecution == cancelled => ~Executed

\* C3 (cancel rejects the burst's promise): cancel() with pending() true and a
\* promise outstanding rejects that promise with DebounceCancelledError and
\* drops it; a promise is settled only while it is the outstanding one, and a
\* promise once dropped is never the outstanding one again.
C3_CancelRejects ==
  [][ /\ (lastOp'.name = "cancel" /\ hasPending /\ pendingPromise # Null) =>
           /\ lastSettled' = [id |-> pendingPromise, st |-> "rejected",
                              err |-> "DebounceCancelledError", exec |-> NoExec,
                              returnedTo |-> returnedTo]
           /\ pendingPromise' = Null
      /\ Settled' => (lastSettled'.id = pendingPromise /\ pendingPromise' = Null)
      /\ \/ pendingPromise' \in {pendingPromise, Null}
         \/ (pendingPromise' = nPromises + 1 /\ nPromises' = nPromises + 1) ]_vars

\* cancel() has rejected the promise of a pending burst.
C3_Witness ==
  /\ lastOp.name = "cancel" /\ lastOp.was
  /\ lastSettled.st = "rejected" /\ lastSettled.err = "DebounceCancelledError"
  /\ lastSettled.returnedTo = {bursts}

\* C4 (max-wait bound): on a wrapper with maxWait and without condition, a
\* burst is never pending for longer than maxWait after its first call.
C4_MaxWaitBound ==
  (condition = "none" /\ maxWait > 0 /\ hasPending) => sinceBurst <= maxWait

\* C5 (shared result within a burst): with an asynchronous fn a call returns
\* the outstanding promise, which has been handed out in this burst only; a
\* later call of the burst finds that promise still outstanding; and a promise
\* settled with the outcome of an execution was handed out in the burst of
\* that execution only.
C5_SharedResult ==
  /\ [](isDeclaredAsyncFunction =>
          /\ lastOp.name = "call" =>
               (lastOp.ret = [kind |-> "promise", v |-> pendingPromise]
                /\ returnedTo = {bursts})
          /\ lastSettled.exec # NoExec =>
               lastSettled.returnedTo = {lastSettled.exec.burst})
  /\ [][(isDeclaredAsyncFunction /\ hasPending /\ lastOp'.name = "call") =>
          (pendingPromise # Null /\ bursts \in returnedTo
           /\ lastOp'.ret.v = pendingPromise)]_vars

\* C6 (synchronous flush): flush() on a pending burst of a synchronous fn
\* without condition executes fn once, in that step, with the arguments of the
\* last call, returns what fn returns (or throws what it throws), leaves
\* pending() false and no timer; the burst is executed no further.
C6_SyncFlush ==
  (~isDeclaredAsyncFunction /\ condition = "none") =>
    /\ execsInBurst <= 1
    /\ (lastOp.name = "flush" /\ lastOp.was) =>
         /\ lastExec.via = "flush"
         /\ lastExec.pending
         /\ lastExec.args = nCalls
         /\ lastOp.ret.kind \in {"value", "throw"}
         /\ lastOp.ret.v = lastExec.args
         /\ execsInBurst = 1
         /\ ~hasPending
         /\ lastArgs = NullArgs
         /\ timers = {} /\ delayTimer = Null /\ maxWaitTimer = Null

\* flush() has run a burst of two calls that had a max-wait deadline armed.
C6_Witness ==
  /\ ~isDeclaredAsyncFunction /\ condition = "none" /\ maxWait > 0
  /\ lastOp.name = "flush" /\ lastOp.was /\ lastOp.ret = [kind |-> "value", v |-> 2]

\* C7 (deferred flush of an asynchronous fn): flush() on a pending burst
\* cancels the delay timer and the max-wait deadline and returns the promise
\* of the burst, and the burst is executed at most once, also when flush() is
\* called again before the forced attempt runs.
C7_DeferredFlush ==
  isDeclaredAsyncFunction =>
    /\ (lastOp.name = "flush" /\ lastOp.was) =>
         /\ delayTimer = Null /\ maxWaitTimer = Null
         /\ \A t \in timers : t.cb = "tryRun" /\ t.left = 0
         /\ lastOp.ret = [kind |-> "promise", v |-> pendingPromise]
         /\ bursts \in returnedTo
    /\ nFlush > 0 => execsInBurst <= 1

\* C8 (pending lifecycle): pending() is false before any call and true right
\* after every call; it turns false only in a step that executes fn or
\* cancels the burst, both of which leave it false; and it turns true only in
\* a call.
C8_PendingLifecycle ==
  /\ [](/\ bursts = 0 => ~hasPending
        /\ lastOp.name = "call" => hasPending
        /\ Executed => ~hasPending
        /\ (lastOp.name = "cancel" \/ cancelled) => ~hasPending)
  /\ [][/\ (hasPending /\ ~hasPending') => (Executed' \/ cancelled')
        /\ (~hasPending /\ hasPending') => lastOp'.name = "call"]_vars

\* A burst has been executed by its timer, and pending() is false again.
C8_Witness == lastExec.via = "tryRun" /\ lastExec.pending /\ ~hasPending /\ bursts = 2

\* C9 (condition gating): with a condition configured, every execution of fn
\* happens in an attempt (or flush) whose own evaluation of the condition
\* yielded true.
C9_ConditionGating == (condition # "none" /\ Executed) => lastExec.cond = "true"

\* An attempt suspended on an asynchronous condition has resumed with true and
\* executed fn.
C9_Witness == condition = "async" /\ Executed /\ lastExec.cond = "true" /\ lastExec.pending

\* C10 (cancel when not pending): cancel() with pending() false changes no
\* timer, subscription, record or promise and settles nothing; and when an
\* operation in flight completes while a promise is outstanding, that promise
\* is settled with the outcome of that operation.
C10_CancelNoop ==
  [][/\ (lastOp'.name = "cancel" /\ ~hasPending) =>
          (UNCHANGED <<closure, host, bursts, execsInBurst, returnedTo>>
           /\ lastSettled' = NoSettlement /\ lastExec' = NoExecution)
     /\ (BagCardinality(inflight') < BagCardinality(inflight) /\ pendingPromise # Null) =>
          /\ lastSettled'.id = pendingPromise
          /\ lastSettled'.err \in {"none", "operation"}
          /\ BagIn(lastSettled'.exec, inflight)]_vars

\* cancel() was called while the operation of an executed burst was in flight;
\* the promise of that burst is still outstanding.
C10_Witness ==
  /\ lastOp.name = "cancel" /\ ~lastOp.was
  /\ pendingPromise # Null /\ inflight # EmptyBag /\ ~hasPending

\* C11 (flush when not pending): flush() with pending() false returns
\* undefined whatever the condition would yield, executes nothing, settles
\* nothing and leaves timers, subscription, record and promise unchanged.
C11_FlushNoop ==
  [][(lastOp'.name = "flush" /\ ~hasPending) =>
       /\ lastOp'.ret = Undefined
       /\ UNCHANGED <<closure, host, bursts, execsInBurst, returnedTo>>
       /\ lastSettled' = NoSettlement /\ lastExec' = NoExecution]_vars

\* flush() was called on a wrapper with a condition after its burst had been
\* executed, while nothing was pending; it returned undefined.
C11_Witness ==
  /\ lastOp.name = "flush" /\ ~lastOp.was /\ lastOp.ret = Undefined
  /\ condition = "sync" /\ bursts = 1 /\ execsInBurst = 1 /\ ~hasPending

\* C12 (operation failure reaches the caller): a timer-driven execution in
\* which fn throws rejects, with that error, a promise that was returned to
\* a call of the executed burst; and when the promise a declared-async fn
\* returned settles, a promise returned to a call of its burst is settled.
C12_FailureReachesCaller ==
  /\ []((Executed /\ lastExec.via = "tryRun" /\ lastExec.res = "throw") =>
          /\ lastSettled.st = "rejected" /\ lastSettled.err = "operation"
          /\ lastExec.burst \in lastSettled.returnedTo)
  /\ [][BagCardinality(inflight') < BagCardinality(inflight) =>
          (Settled' /\ lastSettled'.exec.burst \in lastSettled'.returnedTo)]_vars

\* C13 (condition-check failure is final): after an attempt in which the
\* condition raised or its promise rejected, fn is not executed until the
\* caller calls again or flushes the burst (condFailed holds in between); and
\* such an attempt rejects the outstanding promise with that error.
C13_ConditionFailureFinal ==
  /\ condFailed => ~Executed
  /\ lastSettled.err = "condition" => (lastSettled.st = "rejected" /\ condFailed)

\* C14 (construction validation): debounce(fn, delay, options) ends with a
\* TypeError, no timer armed, exactly when fn is not a function or delay is
\* not a finite number >= 0; otherwise it succeeds, with pending() false.
C14_ConstructionValidation ==
  built # "no" =>
    /\ built = "ok" <=> /\ fnArg \in {"Function", "AsyncFunction"}
                       /\ delayArg.type = "number"
                       /\ delayArg.is = "finite"
                       /\ delayArg.v >= 0
    /\ built # "ok" => built \in {"TypeError: Expected a function to debounce",
                                 "TypeError: Expected 'delay' to be a non-negative finite number"}
    /\ ~hasPending /\ timers = {} /\ delayTimer = Null /\ maxWaitTimer = Null
    /\ built = "ok" => (delay = delayArg.v /\ isDeclaredAsyncFunction = (fnArg = "AsyncFunction"))

\* Construction with a declared-async fn and delay -1 has thrown.
C14_Witness ==
  /\ fnArg = "AsyncFunction" /\ delayArg = [type |-> "number", is |-> "finite", v |-> -1]
  /\ built = "TypeError: Expected 'delay' to be a non-negative finite number"

\* C15 (external-signal cancellation): a keydown of the configured key while
\* pending() is true has exactly the effect of cancel(): timers cleared,
\* record cleared, pending() false, the outstanding promise rejected with
\* DebounceCancelledError, nothing executed; a keydown of another key, or any
\* keydown while pending() is false, changes nothing.
C15_KeySignalCancels ==
  [][\A key \in Keys :
       (lastOp' = EnvStep /\ UNCHANGED <<awaiting, inflight, execsInBurst>> /\ KeyDown(key)) =>
         IF key = cancelKey /\ hasPending
         THEN /\ Commit(cancel(State))
              /\ ~hasPending' /\ lastArgs' = NullArgs
              /\ delayTimer' = Null /\ maxWaitTimer' = Null
              /\ \A t \in timers' : t.id \notin {delayTimer, maxWaitTimer}
              /\ ~removeKeyListener'
              /\ pendingPromise # Null =>
                   (lastSettled'.id = pendingPromise /\ lastSettled'.st = "rejected"
                    /\ lastSettled'.err = "DebounceCancelledError")
              /\ lastExec' = NoExecution
         ELSE /\ UNCHANGED <<closure, host, bursts, execsInBurst, returnedTo>>
              /\ lastExec' = NoExecution /\ lastSettled' = NoSettlement]_vars

\* A keydown of the configured key (no cancel() call) has cancelled a burst
\* whose max-wait deadline was armed and rejected its promise.
C15_Witness ==
  /\ cancelled /\ lastOp = EnvStep /\ maxWait > 0 /\ timers = {}
  /\ lastSettled.err = "DebounceCancelledError" /\ lastSettled.returnedTo = {bursts}

\* C16 (at most one execution per burst): the executions of fn never
\* outnumber the bursts started.  Stated for the runs in which at most one
\* burst has started, where the executions are those counted for that burst.
C16_ExecutionsWithinBursts == bursts <= 1 => execsInBurst <= bursts

\* C17 (cancel during a suspended condition check): when an attempt that was
\* suspended on an asynchronous condition resumes after the burst was
\* cancelled and before a later call, it executes nothing, arms no timer, and
\* pending() stays false.
C17_CancelledAttemptStops ==
  [][(cancelled /\ ~hasPending /\ awaiting' < awaiting) =>
       (lastExec' = NoExecution /\ timers' = timers /\ delayTimer' = delayTimer
        /\ ~hasPending')]_vars

\* C18 (single attempt in flight): at most one execution attempt is
\* suspended on the asynchronous condition at any time.
C18_SingleAttempt == awaiting <= 1

\* C19 (at most one live delay timer): at most one live timer has an
\* execution attempt as its callback.
C19_OneAttemptTimer == Cardinality({t \in timers : t.cb = "tryRun"}) <= 1

\* C20 (pending/timer correspondence): pending() is true exactly when an
\* execution-attempt timer is live or an attempt is suspended.
C20_PendingIffAttempt == hasPending <=> Attempts > 0

\* The live max-wait timers.
MaxWaitTimers == {t \in timers : t.cb = "maxWait"}

\* C21 (the max-wait deadline is per burst): at most one max-wait timer is
\* live, it is the one maxWaitTimer holds, and only while pending() is true;
\* a call that finds pending() false arms it with the full maxWait, a call
\* that finds pending() true leaves it as it is, and no other step arms or
\* postpones one.
C21_MaxWaitPerBurst ==
  /\ [](/\ Cardinality(MaxWaitTimers) <= 1
        /\ \A t \in MaxWaitTimers : hasPending /\ t.id = maxWaitTimer /\ maxWait > 0)
  /\ [][/\ (lastOp'.name = "call" /\ hasPending) => MaxWaitTimers' = MaxWaitTimers
        /\ (lastOp'.name = "call" /\ ~hasPending /\ maxWait > 0) =>
             MaxWaitTimers' = {[id |-> maxWaitTimer', cb |-> "maxWait", left |-> maxWait]}
        /\ \A t \in MaxWaitTimers' \ MaxWaitTimers :
             \/ (lastOp'.name = "call" /\ ~hasPending)
             \/ \E u \in MaxWaitTimers : u.id = t.id /\ t.left < u.left]_vars

\* A later call of a burst was made when the max-wait deadline, armed by the
\* first call, had run down; the deadline is still the one armed then.
C21_Witness ==
  /\ lastOp.name = "call" /\ lastOp.was /\ nCalls = 2 /\ bursts = 1
  /\ \E t \in MaxWaitTimers : t.left < maxWait /\ t.id = maxWaitTimer

\* C22 (subscription only while pending): a keydown listener is registered
\* only while pending() is true, never more than one is registered, and the
\* registered one is the one removeKeyListener removes; so every step that
\* ends with pending() false ends with no listener.
C22_SubscriptionWhilePending ==
  /\ listeners <= 1
  /\ listeners > 0 => hasPending
  /\ removeKeyListener <=> listeners = 1

\* A later call of a burst found the listener registered and registered no
\* second one.
C22_Witness ==
  lastOp.name = "call" /\ lastOp.was /\ listeners = 1 /\ removeKeyListener

\* What a step that only schedules a retry leaves alone, and what it adds:
\* `fired` is the set of timers the step consumed.
RetryOnly(fired) ==
  /\ UNCHANGED <<hasPending, lastArgs, maxWaitTimer, pendingPromise, nPromises,
                 removeKeyListener, listeners, inflight, bursts, execsInBurst, returnedTo>>
  /\ MaxWaitTimers' = MaxWaitTimers
  /\ lastExec' = NoExecution
  /\ lastSettled' = NoSettlement
  /\ timers \ fired \subseteq timers'
  /\ \E n \in timers' : /\ timers' = (timers \ fired) \cup {n}
                         /\ n \notin timers
                         /\ n.cb = "tryRun"
                         /\ n.id = delayTimer'

\* C23 (a false condition changes nothing but the retry): the step in which
\* an attempt sees its condition yield false, synchronously or after the
\* await, leaves pending(), the last arguments, the max-wait timer and the
\* promise as they were, runs and settles nothing, and adds exactly one timer
\* for tryRun, whose handle it stores in delayTimer.
C23_FalseConditionFrame ==
  [][/\ \A t \in timers, r \in FnOutcomes :
          (lastOp' = EnvStep /\ lastExec' = NoExecution /\ condition = "sync"
             /\ t.cb = "tryRun" /\ FireTimer(t, "false", r)) => RetryOnly({t})
     /\ \A r \in FnOutcomes :
          (lastOp' = EnvStep /\ lastExec' = NoExecution /\ awaiting' < awaiting
             /\ ResumeTryRun("false", r)) => RetryOnly({})]_vars

\* The attempt of a burst of one call, on a wrapper without max-wait, found
\* the condition false: the burst is still pending, with its arguments and
\* its promise, and a second timer handle, freshly armed, is in delayTimer
\* although only the call armed a timer before.
C23_Witness ==
  /\ condition # "none" /\ maxWait = 0 /\ nCalls = 1 /\ nFlush = 0
  /\ hasPending /\ lastArgs # NullArgs /\ pendingPromise # Null /\ lastOp = EnvStep
  /\ timers = {[id |-> delayTimer, cb |-> "tryRun", left |-> Max(RetryFloor, delay)]}
  /\ delayTimer = 2

\* The step is one in which an attempt sees its condition yield false: it
\* adds the timer n.
RetryStep(n) ==
  /\ lastOp' = EnvStep /\ lastExec' = NoExecution
  /\ n \in timers' \ timers /\ n.cb = "tryRun"
  /\ \/ \E t \in timers, r \in FnOutcomes :
          condition = "sync" /\ t.cb = "tryRun" /\ FireTimer(t, "false", r)
     \/ \E r \in FnOutcomes : awaiting' < awaiting /\ ResumeTryRun("false", r)

\* C24 (retry interval), as the code has it: after a condition check yields
\* false the next attempt is scheduled after max(10, delay) milliseconds,
\* that is after the configured delay, and after 10 ms when delay is less.
C24_RetryInterval ==
  [][\A n \in timers' : RetryStep(n) => n.left = Max(RetryFloor, delay)]_vars

\* A retry was scheduled on a wrapper whose delay is above the floor: the one
\* live timer is the retry, armed with the delay.
C24_Witness ==
  /\ delay > RetryFloor /\ nCalls = 1 /\ nFlush = 0 /\ hasPending /\ lastOp = EnvStep
  /\ delayTimer = 2
  /\ timers = {[id |-> 2, cb |-> "tryRun", left |-> delay]}

\* C24 as stated: the retry is scheduled after 10 ms for every delay.
C24_FixedRetryInterval ==
  [][\A n \in timers' : RetryStep(n) => n.left = RetryFloor]_vars

\* The step is one in which an attempt sees its condition yield false.
ConditionFalse == \E n \in timers' : RetryStep(n)

\* The step before executed fn, for a pending burst, with the arguments of
\* the last call made, and ended the burst.
ExecutedLastCall ==
  Executed /\ lastExec.pending /\ lastExec.args = nCalls /\ lastExec.args # NullArgs
    /\ ~hasPending

\* C25 (retry until ready): in runs without cancel, with finitely many calls
\* and a condition that never raises, a pending burst always has an attempt
\* scheduled or suspended, whatever the condition yields; and if from some
\* point on the condition yields true in every attempt, every pending burst
\* leads to an execution of fn with the last call's arguments, which ends it.
C25_RetryUntilReady ==
  /\ [](hasPending => Attempts > 0)
  /\ <>[][~ConditionFalse]_vars => (hasPending ~> ExecutedLastCall)

\* A burst of two calls on a wrapper with a condition was executed, with the
\* second call's arguments, by an attempt that saw the condition yield true.
C25_Witness ==
  /\ ExecutedLastCall /\ lastExec.via = "tryRun" /\ lastExec.cond = "true"
  /\ nCalls = 2 /\ bursts = 1 /\ nFlush = 0 /\ timers = {}

\* C26 (promises are per burst): a call that starts a burst returns a promise
\* that no call of another burst has returned, and a promise is settled only
\* with the outcome of the burst whose calls returned it: the result or error
\* of that burst's execution, or the cancellation of that burst.
C26_PromisePerBurst ==
  /\ (lastOp.name = "call" /\ ~lastOp.was /\ lastOp.ret.kind = "promise") =>
       returnedTo = {bursts}
  /\ Settled =>
       lastSettled.returnedTo \subseteq
         {IF lastSettled.exec # NoExec THEN lastSettled.exec.burst ELSE bursts}

\* C27 (the operation only runs on a captured record): every execution of fn,
\* by an attempt or by flush, happens in a step that starts with pending()
\* true, and passes the arguments of the most recent call, never the cleared
\* (null) record.
C27_RunsOnCapturedRecord ==
  Executed =>
    /\ lastExec.pending
    /\ lastExec.args # NullArgs
    /\ lastExec.args = nCalls

====
